---- MODULE Spec2Model ----
(***************************************************************************)
(* Model of frontend/app/src/app/page.tsx: the WebSocket connection        *)
(* lifecycle of the Home component (connectWebSocket, handleFocus,         *)
(* sendMessage, the socket callbacks, the mount effect and its cleanup)    *)
(* and the text wrapping used by the PDF export (wrapText).                *)
(***************************************************************************)
EXTENDS Integers, Sequences, FiniteSets, TLC

(* ---------------------------- bounds ----------------------------------- *)
MaxSockets == 2
MaxMessages == 2
MaxSent == 1
MaxLen == 3
MaxPdfMessages == 2
MaxPages == 2

(* ------------------------- input domains -------------------------------- *)
SummaryLabel == "GPTsummary"
Topics == {"", "t"}
VideoIds == {"", "abc123"}
ChannelIds == {"", "UC1"}
Modes == {"none", "comment_analysis", "channel_subscriber_popular_channel"}

\* Inbound wire texts: valid = FALSE is a text JSON.parse throws on.
Frames ==
  { [valid |-> TRUE, sender |-> SummaryLabel, text |-> "s"],
    [valid |-> FALSE, sender |-> "", text |-> "{"] }

VARIABLES
  messages,      \* useState<Message[]>([])
  isConnected,   \* useState(false)
  loading,       \* useState(false)
  topic,         \* useState("")
  analysisType,  \* useState("none")
  videoId,       \* useState("")
  channelId,     \* useState("")
  socketRef,     \* useRef<WebSocket | null>(null); 0 is null, else an index of sockets
  sockets,       \* readyState of every WebSocket created so far
  sent,          \* frames transmitted, as <<socket, wire text>>
  phase,         \* "rendered" (effect not yet run), "mounted", "unmounted"
  lastOp,        \* the handler that ran last and how it ended
  text,          \* wrapText: the paragraph, a sequence of characters
  font,          \* wrapText: the glyph metrics behind font.widthOfTextAtSize
  i,             \* wrapText: the loop index (1-based)
  lines,         \* wrapText: const lines: string[] = []
  currentLine,   \* wrapText: let currentLine = ""
  wpc,           \* wrapText: "idle", "loop" or "done"
  pdfpc,         \* generatePDF: "idle", "fetch", "para", "line", "save", "done", "failed"
  notoSansJP,    \* generatePDF: the font the resource holds
  pages,         \* generatePDF: number of pages added to pdfDoc
  headerPage,    \* generatePDF: the page carrying the header, 0 when not drawn
  yOffset,       \* generatePDF: let yOffset
  paragraphs,    \* generatePDF: the paragraphs the forEach has not visited yet
  wrappedLines,  \* generatePDF: the lines of the current paragraph not drawn yet
  saved,         \* generatePDF: pdfDoc.save() has produced the bytes
  downloaded     \* generatePDF: link.click() has offered the file

appVars == <<messages, isConnected, loading, topic, analysisType, videoId,
             channelId, socketRef, sockets, sent, phase, lastOp>>

wrapVars == <<text, font, i, lines, currentLine, wpc>>

pdfVars == <<pdfpc, notoSansJP, pages, headerPage, yOffset, paragraphs,
             wrappedLines, saved, downloaded>>

vars == <<appVars, wrapVars, pdfVars>>

form == <<topic, analysisType, videoId, channelId>>

Op(n, s, o) == [name |-> n, sock |-> s, outcome |-> o]

SockIds == 1..Len(sockets)

Live(s) == sockets[s] \in {"CONNECTING", "OPEN"}

(* ------------------------- connectWebSocket ----------------------------- *)
\* Guard of connectWebSocket: the early return.
AlreadyOpen == socketRef # 0 /\ sockets[socketRef] = "OPEN"

\* connectWebSocket without its early return.
ConnectWebSocket_Unguarded ==
  /\ sockets' = Append(sockets, "CONNECTING")
  /\ socketRef' = Len(sockets) + 1

\* The body of connectWebSocket: new WebSocket(...) and socketRef.current = ws.
ConnectWebSocket ==
  IF AlreadyOpen
  THEN /\ UNCHANGED <<sockets, socketRef>>
  ELSE /\ sockets' = Append(sockets, "CONNECTING")
       /\ socketRef' = Len(sockets) + 1

\* useEffect(() => { connectWebSocket(); ... }, [])
Mount ==
  /\ phase = "rendered"
  /\ phase' = "mounted"
  /\ ConnectWebSocket
  /\ lastOp' = Op("mount", socketRef', "connect")
  /\ UNCHANGED <<messages, isConnected, loading, form, sent>>
  /\ UNCHANGED <<wrapVars, pdfVars>>

\* The cleanup returned by the effect: closes only socketRef.current.
CloseSocket(s) ==
  [sockets EXCEPT ![s] = IF @ \in {"CONNECTING", "OPEN"} THEN "CLOSING" ELSE @]

Unmount ==
  /\ phase = "mounted"
  /\ phase' = "unmounted"
  /\ sockets' = IF socketRef # 0 THEN CloseSocket(socketRef) ELSE sockets
  /\ lastOp' = Op("unmount", socketRef, "closed")
  /\ UNCHANGED <<messages, isConnected, loading, form, socketRef, sent>>
  /\ UNCHANGED <<wrapVars, pdfVars>>

(* ----------------------------- handleFocus ------------------------------ *)
\* handleFocus with its condition inverted: if (isConnected).
HandleFocus_Inverted ==
  /\ phase = "mounted"
  /\ IF isConnected
     THEN /\ Len(sockets) < MaxSockets \/ AlreadyOpen
          /\ ConnectWebSocket
          /\ lastOp' = Op("handleFocus", socketRef', "connect")
     ELSE /\ UNCHANGED <<sockets, socketRef>>
          /\ lastOp' = Op("handleFocus", socketRef, "skip")
  /\ UNCHANGED <<messages, isConnected, loading, form, sent, phase>>
  /\ UNCHANGED <<wrapVars, pdfVars>>

HandleFocus ==
  /\ phase = "mounted"
  /\ IF ~isConnected
     THEN /\ Len(sockets) < MaxSockets \/ AlreadyOpen
          /\ ConnectWebSocket
          /\ lastOp' = Op("handleFocus", socketRef', "connect")
     ELSE /\ UNCHANGED <<sockets, socketRef>>
          /\ lastOp' = Op("handleFocus", socketRef, "skip")
  /\ UNCHANGED <<messages, isConnected, loading, form, sent, phase>>
  /\ UNCHANGED <<wrapVars, pdfVars>>

(* ----------------------------- socket events ---------------------------- *)
\* ws.onopen
OnOpen(s) ==
  /\ sockets[s] = "CONNECTING"
  /\ sockets' = [sockets EXCEPT ![s] = "OPEN"]
  /\ isConnected' = TRUE
  /\ lastOp' = Op("onopen", s, "ok")
  /\ UNCHANGED <<messages, loading, form, socketRef, sent, phase>>
  /\ UNCHANGED <<wrapVars, pdfVars>>

\* JSON.parse(event.data) as Message
JSONParse(data) ==
  IF data.valid
  THEN [ok |-> TRUE, value |-> [sender |-> data.sender, text |-> data.text]]
  ELSE [ok |-> FALSE, value |-> [sender |-> "", text |-> ""]]

\* ws.onmessage putting the new message in front: [data, ...prev].
OnMessage_Prepend(s, data) ==
  /\ sockets[s] = "OPEN"
  /\ LET r == JSONParse(data) IN
       IF r.ok
       THEN /\ Len(messages) < MaxMessages
            /\ messages' = <<r.value>> \o messages
            /\ loading' = FALSE
            /\ lastOp' = Op("onmessage", s, "appended")
       ELSE /\ UNCHANGED <<messages, loading>>
            /\ lastOp' = Op("onmessage", s, "parseError")
  /\ UNCHANGED <<isConnected, form, socketRef, sockets, sent, phase>>
  /\ UNCHANGED <<wrapVars, pdfVars>>

\* ws.onmessage with setLoading(false) moved out of the try block.
OnMessage_ClearOnError(s, data) ==
  /\ sockets[s] = "OPEN"
  /\ LET r == JSONParse(data) IN
       IF r.ok
       THEN /\ Len(messages) < MaxMessages
            /\ messages' = Append(messages, r.value)
            /\ lastOp' = Op("onmessage", s, "appended")
       ELSE /\ UNCHANGED messages
            /\ lastOp' = Op("onmessage", s, "parseError")
  /\ loading' = FALSE
  /\ UNCHANGED <<isConnected, form, socketRef, sockets, sent, phase>>
  /\ UNCHANGED <<wrapVars, pdfVars>>

\* ws.onmessage
OnMessage(s, data) ==
  /\ sockets[s] = "OPEN"
  /\ LET r == JSONParse(data) IN
       IF r.ok
       THEN /\ Len(messages) < MaxMessages
            /\ messages' = Append(messages, r.value)
            /\ loading' = FALSE
            /\ lastOp' = Op("onmessage", s, "appended")
       ELSE /\ UNCHANGED <<messages, loading>>
            /\ lastOp' = Op("onmessage", s, "parseError")
  /\ UNCHANGED <<isConnected, form, socketRef, sockets, sent, phase>>
  /\ UNCHANGED <<wrapVars, pdfVars>>

\* ws.onclose without setLoading(false).
OnCloseHandler_KeepLoading ==
  /\ isConnected' = FALSE
  /\ UNCHANGED loading

\* ws.onclose
OnCloseHandler ==
  /\ isConnected' = FALSE
  /\ loading' = FALSE

\* The connection ends (peer close, or the closing handshake completes).
OnClose(s) ==
  /\ sockets[s] \in {"OPEN", "CLOSING"}
  /\ sockets' = [sockets EXCEPT ![s] = "CLOSED"]
  /\ OnCloseHandler
  /\ lastOp' = Op("onclose", s, "ok")
  /\ UNCHANGED <<messages, form, socketRef, sent, phase>>
  /\ UNCHANGED <<wrapVars, pdfVars>>

\* The connection attempt fails: ws.onerror (logs only), then ws.onclose.
OnError(s) ==
  /\ sockets[s] = "CONNECTING"
  /\ sockets' = [sockets EXCEPT ![s] = "CLOSED"]
  /\ OnCloseHandler
  /\ lastOp' = Op("onerror", s, "ok")
  /\ UNCHANGED <<messages, form, socketRef, sent, phase>>
  /\ UNCHANGED <<wrapVars, pdfVars>>

(* ------------------------------ sendMessage ----------------------------- *)
\* The payload with videoId sent in every mode.
Payload_AlwaysVideoId(t, mode, vid, cid) ==
  [topic |-> <<t>>,
   analysisType |-> IF mode # "none" THEN <<mode>> ELSE <<>>,
   videoId |-> <<vid>>,
   channelId |-> IF mode = "channel_subscriber_popular_channel" THEN <<cid>> ELSE <<>>]

\* A payload field is <<>> when undefined and <<v>> when it holds the string v.
Payload(t, mode, vid, cid) ==
  [topic |-> <<t>>,
   analysisType |-> IF mode # "none" THEN <<mode>> ELSE <<>>,
   videoId |-> IF mode = "comment_analysis" THEN <<vid>> ELSE <<>>,
   channelId |-> IF mode = "channel_subscriber_popular_channel" THEN <<cid>> ELSE <<>>]

PayloadKeys == <<"topic", "analysisType", "videoId", "channelId">>

\* JSON.stringify of an object: the members in insertion order, a member
\* whose value is undefined left out.  A wire text is a sequence of
\* <<key, value>> members.
RECURSIVE Members(_, _)
Members(p, n) ==
  IF n > Len(PayloadKeys) THEN <<>>
  ELSE LET k == PayloadKeys[n] IN
       (IF p[k] = <<>> THEN <<>> ELSE << <<k, p[k][1]>> >>) \o Members(p, n + 1)

JSONStringify(p) == Members(p, 1)

Keys(frame) == { frame[n][1] : n \in 1..Len(frame) }

ValueOf(frame, k) == { frame[n][2] : n \in { j \in 1..Len(frame) : frame[j][1] = k } }

\* The guard of sendMessage without the isConnected test.
SendGuard_NoFlag == socketRef # 0

\* Guard of sendMessage.
SendGuard == socketRef # 0 /\ isConnected

\* WebSocket.send: throws in CONNECTING, transmits in OPEN, discards the
\* data in CLOSING and CLOSED.
SendMessage ==
  /\ phase = "mounted"
  /\ IF SendGuard
     THEN /\ Len(messages) < MaxMessages
          /\ messages' = Append(messages, [sender |-> "User", text |-> topic])
          /\ LET st == sockets[socketRef]
                 data == JSONStringify(Payload(topic, analysisType, videoId, channelId))
             IN  IF st = "CONNECTING"
                 THEN /\ UNCHANGED <<sent, topic, loading>>
                      /\ lastOp' = Op("sendMessage", socketRef, "threw")
                 ELSE /\ IF st = "OPEN"
                         THEN /\ Len(sent) < MaxSent
                              /\ sent' = Append(sent, <<socketRef, data>>)
                              /\ lastOp' = Op("sendMessage", socketRef, "sent")
                         ELSE /\ UNCHANGED sent
                              /\ lastOp' = Op("sendMessage", socketRef, "dropped")
                      /\ topic' = ""
                      /\ loading' = TRUE
     ELSE /\ UNCHANGED <<messages, sent, topic, loading>>
          /\ lastOp' = Op("sendMessage", socketRef, "rejected")
  /\ UNCHANGED <<isConnected, analysisType, videoId, channelId, socketRef,
                 sockets, phase>>
  /\ UNCHANGED <<wrapVars, pdfVars>>

(* ------------------------------- wrapText ------------------------------ *)
\* let page = pdfDoc.addPage([600, 800]); const marginX = 50;
\* const maxWidth = width - marginX * 2;
PageWidth == 600
PageHeight == 800
marginX == 50
maxWidth == PageWidth - marginX * 2

Chars == {"a", "b"}
\* Glyph advance widths at the export font size, in layout units.
Widths == {200, 250, 300, 600}
\* Kerning adjustment applied to the pair "a","b".
Kerns == {0, -50}

RECURSIVE Paragraphs(_)
Paragraphs(n) ==
  IF n = 0 THEN {<<>>}
  ELSE Paragraphs(n - 1) \cup
       { Append(p, c) : p \in { q \in Paragraphs(n - 1) : Len(q) = n - 1 }, c \in Chars }

Fonts == [w : [Chars -> Widths], kern : Kerns]

\* font.widthOfTextAtSize(str, fontSize): the advances of the glyphs plus
\* the kerning of each adjacent pair.
RECURSIVE widthOfTextAtSize(_, _)
widthOfTextAtSize(f, str) ==
  IF str = <<>> THEN 0
  ELSE LET n == Len(str)
           k == IF n >= 2 /\ str[n - 1] = "a" /\ str[n] = "b" THEN f.kern ELSE 0
       IN  widthOfTextAtSize(f, SubSeq(str, 1, n - 1)) + f.w[str[n]] + k

\* The loop body breaking the line at width >= maxWidth.
WrapStep_Geq ==
  /\ wpc = "loop"
  /\ i <= Len(text)
  /\ LET char == text[i]
         width == widthOfTextAtSize(font, Append(currentLine, char))
     IN  IF width >= maxWidth
         THEN /\ lines' = Append(lines, currentLine)
              /\ currentLine' = <<char>>
         ELSE /\ currentLine' = Append(currentLine, char)
              /\ UNCHANGED lines
  /\ i' = i + 1
  /\ UNCHANGED <<text, font, wpc>>
  /\ UNCHANGED <<appVars, pdfVars>>

\* The loop body committing the line together with the overflowing character.
WrapStep_PushAfter ==
  /\ wpc = "loop"
  /\ i <= Len(text)
  /\ LET char == text[i]
         width == widthOfTextAtSize(font, Append(currentLine, char))
     IN  IF width > maxWidth
         THEN /\ lines' = Append(lines, Append(currentLine, char))
              /\ currentLine' = <<>>
         ELSE /\ currentLine' = Append(currentLine, char)
              /\ UNCHANGED lines
  /\ i' = i + 1
  /\ UNCHANGED <<text, font, wpc>>
  /\ UNCHANGED <<appVars, pdfVars>>

\* The loop body starting the new line empty: currentLine = "".
WrapStep_DropChar ==
  /\ wpc = "loop"
  /\ i <= Len(text)
  /\ LET char == text[i]
         width == widthOfTextAtSize(font, Append(currentLine, char))
     IN  IF width > maxWidth
         THEN /\ lines' = Append(lines, currentLine)
              /\ currentLine' = <<>>
         ELSE /\ currentLine' = Append(currentLine, char)
              /\ UNCHANGED lines
  /\ i' = i + 1
  /\ UNCHANGED <<text, font, wpc>>
  /\ UNCHANGED <<appVars, pdfVars>>

\* One iteration of the for loop of wrapText.
WrapStep ==
  /\ wpc = "loop"
  /\ i <= Len(text)
  /\ LET char == text[i]
         width == widthOfTextAtSize(font, Append(currentLine, char))
     IN  IF width > maxWidth
         THEN /\ lines' = Append(lines, currentLine)
              /\ currentLine' = <<char>>
         ELSE /\ currentLine' = Append(currentLine, char)
              /\ UNCHANGED lines
  /\ i' = i + 1
  /\ UNCHANGED <<text, font, wpc>>
  /\ UNCHANGED <<appVars, pdfVars>>

\* After the loop: lines.push(currentLine); return lines.
WrapReturn ==
  /\ wpc = "loop"
  /\ i > Len(text)
  /\ lines' = Append(lines, currentLine)
  /\ wpc' = "done"
  /\ UNCHANGED <<text, font, i, currentLine>>
  /\ UNCHANGED <<appVars, pdfVars>>

\* wrapText(text, font, fontSize, maxWidth) entered with any paragraph and font.
WrapInit ==
  /\ text \in Paragraphs(MaxLen)
  /\ font \in Fonts
  /\ i = 1
  /\ lines = <<>>
  /\ currentLine = <<>>
  /\ wpc = "loop"

(* ------------------------------ generatePDF ----------------------------- *)
lineHeight == 16
HeaderDrop == 50
HeaderGap == 30
BottomMargin == 50
TopDrop == 30
ParagraphGap == 5

NL == "\n"

\* wrapText as a function of its arguments: the loop run to its return.
RECURSIVE WrapLoop(_, _, _, _, _)
WrapLoop(f, str, k, ls, cur) ==
  IF k > Len(str) THEN Append(ls, cur)
  ELSE IF widthOfTextAtSize(f, Append(cur, str[k])) > maxWidth
       THEN WrapLoop(f, str, k + 1, Append(ls, cur), <<str[k]>>)
       ELSE WrapLoop(f, str, k + 1, ls, Append(cur, str[k]))

wrapText(str, f) == WrapLoop(f, str, 1, <<>>, <<>>)

\* messages.filter(sender === "GPTまとめ").map(text).join("\n\n")
RECURSIVE JoinBlank(_)
JoinBlank(ts) ==
  IF ts = <<>> THEN <<>>
  ELSE IF Len(ts) = 1 THEN ts[1]
  ELSE ts[1] \o <<NL, NL>> \o JoinBlank(Tail(ts))

RECURSIVE SummaryTexts(_)
SummaryTexts(ms) ==
  IF ms = <<>> THEN <<>>
  ELSE (IF Head(ms).sender = SummaryLabel THEN <<Head(ms).text>> ELSE <<>>)
       \o SummaryTexts(Tail(ms))

markdownText(ms) == JoinBlank(SummaryTexts(ms))

\* str.split("\n")
RECURSIVE Split(_)
Split(str) ==
  IF \A n \in 1..Len(str) : str[n] # NL THEN <<str>>
  ELSE LET k == CHOOSE n \in 1..Len(str) :
                  str[n] = NL /\ \A m \in 1..(n - 1) : str[m] # NL
       IN  <<SubSeq(str, 1, k - 1)>> \o Split(SubSeq(str, k + 1, Len(str)))

\* marked.parse on text without markdown syntax: the runs of non-empty
\* lines are the paragraphs, each rendered as <p>...</p> and a newline.
\* A tag is one element of the sequence.
RECURSIVE Blocks(_, _)
Blocks(ls, cur) ==
  IF ls = <<>> THEN (IF cur = <<>> THEN <<>> ELSE <<cur>>)
  ELSE IF Head(ls) = <<>>
       THEN (IF cur = <<>> THEN <<>> ELSE <<cur>>) \o Blocks(Tail(ls), <<>>)
       ELSE Blocks(Tail(ls), IF cur = <<>> THEN Head(ls) ELSE cur \o <<NL>> \o Head(ls))

RECURSIVE Render(_)
Render(bs) ==
  IF bs = <<>> THEN <<>>
  ELSE <<"<p>">> \o Head(bs) \o <<"</p>", NL>> \o Render(Tail(bs))

markedParse(md) == Render(Blocks(Split(md), <<>>))

\* The chain of replace calls: on text without *, _ and ` only the tags go.
IsTag(tok) == tok \in {"<p>", "</p>"}

NotTag(tok) == ~IsTag(tok)

plainText(mdHtml) == SelectSeq(mdHtml, NotTag)

\* generatePDF entered: PDFDocument.create() and registerFontkit.
GeneratePDF ==
  /\ pdfpc = "idle"
  /\ pdfpc' = "fetch"
  /\ UNCHANGED <<notoSansJP, pages, headerPage, yOffset, paragraphs,
                 wrappedLines, saved, downloaded>>
  /\ UNCHANGED <<appVars, wrapVars>>

\* The first page, the header and the paragraphs of the summary text.
Layout ==
  /\ pages' = 1
  /\ headerPage' = 1
  /\ yOffset' = (PageHeight - HeaderDrop) - HeaderGap
  /\ paragraphs' = Split(plainText(markedParse(markdownText(messages))))
  /\ pdfpc' = "para"

\* The font load wrapped in try/finally with save and download in the
\* finally block.
LoadFont_SaveAnyway ==
  /\ pdfpc = "fetch"
  /\ \E ok \in BOOLEAN :
       IF ok
       THEN Layout /\ UNCHANGED <<saved, downloaded>>
       ELSE /\ pdfpc' = "failed"
            /\ saved' = TRUE
            /\ downloaded' = TRUE
            /\ UNCHANGED <<pages, headerPage, yOffset, paragraphs>>
  /\ UNCHANGED <<notoSansJP, wrappedLines>>
  /\ UNCHANGED <<appVars, wrapVars>>

\* await fetch(font).then(arrayBuffer); await pdfDoc.embedFont(fontBytes):
\* a rejection leaves generatePDF at that line; otherwise the code up to the
\* forEach runs.
LoadFont ==
  /\ pdfpc = "fetch"
  /\ \E ok \in BOOLEAN :
       IF ok
       THEN Layout
       ELSE /\ pdfpc' = "failed"
            /\ UNCHANGED <<pages, headerPage, yOffset, paragraphs>>
  /\ UNCHANGED <<notoSansJP, wrappedLines, saved, downloaded>>
  /\ UNCHANGED <<appVars, wrapVars>>

\* paragraphs.forEach: const wrappedLines = wrapText(paragraph, ...)
NextParagraph ==
  /\ pdfpc = "para"
  /\ paragraphs # <<>>
  /\ wrappedLines' = wrapText(Head(paragraphs), notoSansJP)
  /\ paragraphs' = Tail(paragraphs)
  /\ pdfpc' = "line"
  /\ UNCHANGED <<notoSansJP, pages, headerPage, yOffset, saved, downloaded>>
  /\ UNCHANGED <<appVars, wrapVars>>

\* The page break resetting the cursor to height + 30.
DrawLine_ResetAbove ==
  /\ pdfpc = "line"
  /\ wrappedLines # <<>>
  /\ wrappedLines' = Tail(wrappedLines)
  /\ IF yOffset - lineHeight < BottomMargin
     THEN /\ pages' = pages + 1
          /\ yOffset' = PageHeight + TopDrop
     ELSE /\ yOffset' = yOffset - lineHeight
          /\ UNCHANGED pages
  /\ UNCHANGED <<pdfpc, notoSansJP, headerPage, paragraphs, saved, downloaded>>
  /\ UNCHANGED <<appVars, wrapVars>>

\* The page break test written as yOffset > 50.
DrawLine_FlippedBreak ==
  /\ pdfpc = "line"
  /\ wrappedLines # <<>>
  /\ wrappedLines' = Tail(wrappedLines)
  /\ IF yOffset - lineHeight > BottomMargin
     THEN /\ pages' = pages + 1
          /\ yOffset' = PageHeight - TopDrop
     ELSE /\ yOffset' = yOffset - lineHeight
          /\ UNCHANGED pages
  /\ UNCHANGED <<pdfpc, notoSansJP, headerPage, paragraphs, saved, downloaded>>
  /\ UNCHANGED <<appVars, wrapVars>>

\* wrappedLines.forEach: drawText at yOffset, step down, page break check.
DrawLine ==
  /\ pdfpc = "line"
  /\ wrappedLines # <<>>
  /\ wrappedLines' = Tail(wrappedLines)
  /\ IF yOffset - lineHeight < BottomMargin
     THEN /\ pages' = pages + 1
          /\ yOffset' = PageHeight - TopDrop
     ELSE /\ yOffset' = yOffset - lineHeight
          /\ UNCHANGED pages
  /\ UNCHANGED <<pdfpc, notoSansJP, headerPage, paragraphs, saved, downloaded>>
  /\ UNCHANGED <<appVars, wrapVars>>

\* yOffset -= 5 after the lines of a paragraph.
EndParagraph ==
  /\ pdfpc = "line"
  /\ wrappedLines = <<>>
  /\ yOffset' = yOffset - ParagraphGap
  /\ pdfpc' = "para"
  /\ UNCHANGED <<notoSansJP, pages, headerPage, paragraphs, wrappedLines,
                 saved, downloaded>>
  /\ UNCHANGED <<appVars, wrapVars>>

\* const pdfBytes = await pdfDoc.save()
Save ==
  /\ pdfpc = "para"
  /\ paragraphs = <<>>
  /\ saved' = TRUE
  /\ pdfpc' = "save"
  /\ UNCHANGED <<notoSansJP, pages, headerPage, yOffset, paragraphs,
                 wrappedLines, downloaded>>
  /\ UNCHANGED <<appVars, wrapVars>>

\* The Blob, the link and link.click().
Download ==
  /\ pdfpc = "save"
  /\ downloaded' = TRUE
  /\ pdfpc' = "done"
  /\ UNCHANGED <<notoSansJP, pages, headerPage, yOffset, paragraphs,
                 wrappedLines, saved>>
  /\ UNCHANGED <<appVars, wrapVars>>

\* The forEach over a paragraph list of any length: the list is revealed one
\* paragraph at a time.
MoreParagraphs ==
  /\ pdfpc = "para"
  /\ paragraphs = <<>>
  /\ pages <= MaxPages
  /\ \E p \in Paragraphs(MaxLen) : paragraphs' = <<p>>
  /\ UNCHANGED <<pdfpc, notoSansJP, pages, headerPage, yOffset, wrappedLines,
                 saved, downloaded>>
  /\ UNCHANGED <<appVars, wrapVars>>

\* Fonts and message lists the export is run on.
PdfFonts ==
  { [w |-> [c \in Chars |-> IF c = "a" THEN 250 ELSE 600], kern |-> 0],
    [w |-> [c \in Chars |-> IF c = "a" THEN 200 ELSE 300], kern |-> -50] }

PdfBodies == { <<>>, <<"a">>, <<"b", "a", "b">>, <<"a", NL, NL, "b">> }

PdfMessages == [sender : {"User", SummaryLabel}, text : PdfBodies]

RECURSIVE SeqsUpTo(_, _)
SeqsUpTo(S, n) ==
  IF n = 0 THEN {<<>>}
  ELSE SeqsUpTo(S, n - 1) \cup
       { Append(q, x) : q \in { r \in SeqsUpTo(S, n - 1) : Len(r) = n - 1 }, x \in S }

PdfIdle ==
  /\ pdfpc = "idle"
  /\ notoSansJP = [w |-> [c \in Chars |-> 0], kern |-> 0]
  /\ pages = 0
  /\ headerPage = 0
  /\ yOffset = 0
  /\ paragraphs = <<>>
  /\ wrappedLines = <<>>
  /\ saved = FALSE
  /\ downloaded = FALSE

(* ------------------------------- clearChat ------------------------------ *)
ClearChat ==
  /\ phase = "mounted"
  /\ messages' = <<>>
  /\ lastOp' = Op("clearChat", 0, "ok")
  /\ UNCHANGED <<isConnected, loading, form, socketRef, sockets, sent, phase>>
  /\ UNCHANGED <<wrapVars, pdfVars>>

(* ------------------------------ form inputs ----------------------------- *)
\* onChange={(e) => setTopic(e.target.value)}
SetTopic(t) ==
  /\ phase = "mounted"
  /\ topic' = t
  /\ lastOp' = Op("setTopic", 0, "ok")
  /\ UNCHANGED <<messages, isConnected, loading, analysisType, videoId,
                 channelId, socketRef, sockets, sent, phase>>
  /\ UNCHANGED <<wrapVars, pdfVars>>

\* The three radio buttons.
SetAnalysisType(m) ==
  /\ phase = "mounted"
  /\ analysisType' = m
  /\ lastOp' = Op("setAnalysisType", 0, "ok")
  /\ UNCHANGED <<messages, isConnected, loading, topic, videoId, channelId,
                 socketRef, sockets, sent, phase>>
  /\ UNCHANGED <<wrapVars, pdfVars>>

\* The video id input is rendered only in comment_analysis mode.
SetVideoId(v) ==
  /\ phase = "mounted"
  /\ analysisType = "comment_analysis"
  /\ videoId' = v
  /\ lastOp' = Op("setVideoId", 0, "ok")
  /\ UNCHANGED <<messages, isConnected, loading, topic, analysisType,
                 channelId, socketRef, sockets, sent, phase>>
  /\ UNCHANGED <<wrapVars, pdfVars>>

\* The channel id input is rendered only in channel_subscriber_popular_channel mode.
SetChannelId(c) ==
  /\ phase = "mounted"
  /\ analysisType = "channel_subscriber_popular_channel"
  /\ channelId' = c
  /\ lastOp' = Op("setChannelId", 0, "ok")
  /\ UNCHANGED <<messages, isConnected, loading, topic, analysisType,
                 videoId, socketRef, sockets, sent, phase>>
  /\ UNCHANGED <<wrapVars, pdfVars>>

(* ---------------------------- specification ----------------------------- *)
AppInit ==
  /\ messages = <<>>
  /\ isConnected = FALSE
  /\ loading = FALSE
  /\ topic = ""
  /\ analysisType = "none"
  /\ videoId = ""
  /\ channelId = ""
  /\ socketRef = 0
  /\ sockets = <<>>
  /\ sent = <<>>
  /\ phase = "rendered"
  /\ lastOp = Op("render", 0, "ok")

WrapIdle ==
  /\ text = <<>>
  /\ font = [w |-> [c \in Chars |-> 0], kern |-> 0]
  /\ i = 1
  /\ lines = <<>>
  /\ currentLine = <<>>
  /\ wpc = "idle"

Init == AppInit /\ WrapIdle /\ PdfIdle

Next ==
  \/ Mount
  \/ Unmount
  \/ HandleFocus
  \/ SendMessage
  \/ ClearChat
  \/ \E t \in Topics : SetTopic(t)
  \/ \E m \in Modes : SetAnalysisType(m)
  \/ \E v \in VideoIds : SetVideoId(v)
  \/ \E c \in ChannelIds : SetChannelId(c)
  \/ \E s \in SockIds : OnOpen(s)
  \/ \E s \in SockIds, data \in Frames : OnMessage(s, data)
  \/ \E s \in SockIds : OnClose(s)
  \/ \E s \in SockIds : OnError(s)

Spec == Init /\ [][Next]_vars

InitWrap == AppInit /\ WrapInit /\ PdfIdle

NextWrap ==
  \/ WrapStep
  \/ WrapReturn

SpecWrap == InitWrap /\ [][NextWrap]_vars

\* The export run on a message list.
InitPdf ==
  /\ messages \in SeqsUpTo(PdfMessages, MaxPdfMessages)
  /\ isConnected = FALSE
  /\ loading = FALSE
  /\ topic = ""
  /\ analysisType = "none"
  /\ videoId = ""
  /\ channelId = ""
  /\ socketRef = 0
  /\ sockets = <<>>
  /\ sent = <<>>
  /\ phase = "mounted"
  /\ lastOp = Op("render", 0, "ok")
  /\ WrapIdle
  /\ pdfpc = "idle"
  /\ notoSansJP \in PdfFonts
  /\ pages = 0
  /\ headerPage = 0
  /\ yOffset = 0
  /\ paragraphs = <<>>
  /\ wrappedLines = <<>>
  /\ saved = FALSE
  /\ downloaded = FALSE

NextPdf ==
  \/ GeneratePDF
  \/ LoadFont
  \/ NextParagraph
  \/ DrawLine
  \/ EndParagraph
  \/ Save
  \/ Download

SpecPdf == InitPdf /\ [][NextPdf]_vars

\* The pagination loop run on any paragraph list.
InitPage ==
  /\ AppInit
  /\ WrapIdle
  /\ pdfpc = "para"
  /\ notoSansJP \in PdfFonts
  /\ pages = 1
  /\ headerPage = 1
  /\ yOffset = (PageHeight - HeaderDrop) - HeaderGap
  /\ paragraphs \in { <<p>> : p \in Paragraphs(MaxLen) }
  /\ wrappedLines = <<>>
  /\ saved = FALSE
  /\ downloaded = FALSE

NextPage ==
  \/ NextParagraph
  \/ DrawLine
  \/ EndParagraph
  \/ MoreParagraphs
  \/ Save
  \/ Download

SpecPage == InitPage /\ [][NextPage]_vars

(* ------------------------------ properties ------------------------------ *)
LiveSockets == { s \in SockIds : Live(s) }

ConnectInvoked == lastOp'.name \in {"mount", "handleFocus"} /\ lastOp'.outcome = "connect"

\* C1: connectWebSocket invoked while the socket referenced by socketRef is
\* OPEN creates no socket and leaves socketRef, isConnected, loading and
\* messages as they were.
C1_ConnectWhileOpenIsNoop ==
  [][(ConnectInvoked /\ socketRef # 0 /\ sockets[socketRef] = "OPEN")
       => UNCHANGED <<sockets, socketRef, isConnected, loading, messages>>]_vars

\* C1 witness: handleFocus has just called connectWebSocket and the
\* referenced socket is OPEN (the call returned early).
C1_Witness ==
  /\ lastOp.name = "handleFocus"
  /\ lastOp.outcome = "connect"
  /\ socketRef # 0
  /\ sockets[socketRef] = "OPEN"

\* C2: at most one socket created by connectWebSocket is live (CONNECTING
\* or OPEN) in every reachable state.
C2_AtMostOneLiveSocket == Cardinality(LiveSockets) <= 1

\* C3: sendMessage called while isConnected is false or socketRef is null
\* transmits nothing, does not throw, and leaves messages, topic and loading
\* unchanged.
C3_SendWhileDisconnectedRejected ==
  [][(lastOp'.name = "sendMessage" /\ (~isConnected \/ socketRef = 0))
       => /\ lastOp'.outcome = "rejected"
          /\ UNCHANGED <<sent, messages, topic, loading>>]_vars

\* C3 witness: a sendMessage call has been rejected while a socket exists
\* and the connected flag is false.
C3_Witness ==
  /\ lastOp.name = "sendMessage"
  /\ lastOp.outcome = "rejected"
  /\ ~isConnected
  /\ socketRef # 0
  /\ topic # ""

IsPrefix(a, b) == Len(a) <= Len(b) /\ SubSeq(b, 1, Len(a)) = a

\* C4: between two clearChat calls the message list is append-only: every
\* step other than clearChat keeps the list as a prefix and adds at most one
\* message; a sendMessage that passes its guard appends exactly the "User"
\* message carrying the topic, and a frame that parses appends exactly the
\* parsed message, at the end.
C4_MessagesAppendOnly ==
  [][/\ lastOp'.name # "clearChat"
          => IsPrefix(messages, messages') /\ Len(messages') <= Len(messages) + 1
     /\ (lastOp'.name = "sendMessage" /\ lastOp'.outcome # "rejected")
          => messages' = Append(messages, [sender |-> "User", text |-> topic])
     /\ (lastOp'.name = "onmessage" /\ lastOp'.outcome = "appended")
          => \E data \in Frames :
               /\ data.valid
               /\ messages' = Append(messages, [sender |-> data.sender, text |-> data.text])
    ]_vars

\* C4 witness: a sent message followed by a received one, in that order.
C4_Witness ==
  /\ Len(messages) = 2
  /\ messages[1] = [sender |-> "User", text |-> "t"]
  /\ messages[2].sender = SummaryLabel
  /\ lastOp.name = "onmessage"

\* C5: the close of the socket held in socketRef sets isConnected to false
\* and clears loading; while isConnected is false every sendMessage is
\* rejected, and isConnected becomes true again only by an open event.
C5_CloseDisconnects ==
  [][/\ (lastOp'.name \in {"onclose", "onerror"} /\ lastOp'.sock = socketRef)
          => ~isConnected' /\ ~loading'
     /\ (~isConnected /\ lastOp'.name = "sendMessage")
          => lastOp'.outcome = "rejected" /\ sent' = sent
     /\ (~isConnected /\ isConnected') => lastOp'.name = "onopen"
    ]_vars

\* C5 witness: the held socket has closed after a send was accepted, and a
\* later send has been rejected.
C5_Witness ==
  /\ socketRef # 0
  /\ sockets[socketRef] = "CLOSED"
  /\ Len(sent) > 0
  /\ ~isConnected
  /\ ~loading
  /\ lastOp.name = "sendMessage"
  /\ lastOp.outcome = "rejected"

CallbackNames == {"onopen", "onmessage", "onerror", "onclose"}

\* C6: once the cleanup of the effect has run, no open, message, error or
\* close callback of any socket fires, and messages, isConnected and loading
\* no longer change.
C6_NoCallbackAfterTeardown ==
  [][phase = "unmounted"
       => /\ lastOp'.name \notin CallbackNames
          /\ UNCHANGED <<messages, isConnected, loading>>]_vars

\* C7: an inbound frame that fails to parse leaves messages, isConnected,
\* loading, socketRef and the sockets unchanged; the handler catches the
\* error.
C7_MalformedFrameDiscarded ==
  [][(lastOp'.name = "onmessage" /\ lastOp'.outcome = "parseError")
       => UNCHANGED <<messages, isConnected, loading, socketRef, sockets, sent>>]_vars

\* C7 witness: a malformed frame has been handled while a response was
\* awaited, and the flag is still set.
C7_Witness ==
  /\ lastOp.name = "onmessage"
  /\ lastOp.outcome = "parseError"
  /\ loading
  /\ isConnected
  /\ messages # <<>>

\* C8: a focus while isConnected is false calls connectWebSocket; a focus
\* while isConnected is true creates no socket; and the open event of the
\* socket held in socketRef sets isConnected with that socket OPEN, so that
\* sendMessage passes its guard again.
C8_FocusReconnects ==
  [][/\ (lastOp'.name = "handleFocus" /\ ~isConnected) => lastOp'.outcome = "connect"
     /\ (lastOp'.name = "handleFocus" /\ isConnected)
          => lastOp'.outcome = "skip" /\ UNCHANGED <<sockets, socketRef>>
     /\ (lastOp'.name = "onopen" /\ lastOp'.sock = socketRef)
          => /\ isConnected'
             /\ socketRef' # 0
             /\ sockets'[socketRef'] = "OPEN"
    ]_vars

\* C8 witness: the first socket has closed, a second one created on focus
\* has opened, and a send has been transmitted on it.
C8_Witness ==
  /\ Len(sockets) >= 2
  /\ sockets[1] = "CLOSED"
  /\ socketRef = 2
  /\ sockets[2] = "OPEN"
  /\ isConnected
  /\ lastOp = Op("sendMessage", 2, "sent")

\* C9: every transmitted payload contains topic; contains analysisType iff
\* the mode is not "none"; contains videoId iff the mode is comment_analysis;
\* contains channelId iff the mode is channel_subscriber_popular_channel;
\* each field present carries the value of the form.
C9_PayloadFields ==
  [][(lastOp'.name = "sendMessage" /\ lastOp'.outcome = "sent")
       => LET f == sent'[Len(sent')][2] IN
            /\ "topic" \in Keys(f) /\ ValueOf(f, "topic") = {topic}
            /\ "analysisType" \in Keys(f) <=> analysisType # "none"
            /\ "videoId" \in Keys(f) <=> analysisType = "comment_analysis"
            /\ "channelId" \in Keys(f) <=> analysisType = "channel_subscriber_popular_channel"
            /\ "analysisType" \in Keys(f) => ValueOf(f, "analysisType") = {analysisType}
            /\ "videoId" \in Keys(f) => ValueOf(f, "videoId") = {videoId}
            /\ "channelId" \in Keys(f) => ValueOf(f, "channelId") = {channelId}
            /\ ~("videoId" \in Keys(f) /\ "channelId" \in Keys(f))
    ]_vars

\* C9 witness: a payload sent in comment_analysis mode with videoId
\* "abc123" and without channelId.
C9_Witness ==
  \E n \in 1..Len(sent) :
    /\ Keys(sent[n][2]) = {"topic", "analysisType", "videoId"}
    /\ ValueOf(sent[n][2], "videoId") = {"abc123"}

\* C10: in wrapText a character that brings the measured width of the
\* candidate line to exactly maxWidth stays on the current line, and one that
\* brings it above maxWidth commits the current line without it and starts a
\* new line holding only that character.
C10_WrapBoundary ==
  [][(wpc = "loop" /\ i <= Len(text))
       => LET width == widthOfTextAtSize(font, Append(currentLine, text[i])) IN
            /\ width = maxWidth
                 => currentLine' = Append(currentLine, text[i]) /\ lines' = lines
            /\ width > maxWidth
                 => lines' = Append(lines, currentLine) /\ currentLine' = <<text[i]>>
    ]_vars

\* C10 witness: a line has been committed on overflow and the current line
\* has then been filled to exactly maxWidth.
C10_Witness ==
  /\ wpc = "loop"
  /\ Len(lines) >= 1
  /\ lines[1] # <<>>
  /\ Len(currentLine) >= 2
  /\ widthOfTextAtSize(font, currentLine) = maxWidth

\* A line is about to be drawn at yOffset.
PlacingLine == pdfpc = "line" /\ wrappedLines # <<>>

\* C11: every line drawn by the pagination loop has its vertical coordinate
\* between 0 and the page height, the first line of a paragraph after the
\* unchecked paragraph gap included.
C11_LinesWithinPage == PlacingLine => (0 <= yOffset /\ yOffset <= PageHeight)

\* C11 witness: the first line of a paragraph is drawn below the bottom
\* margin, after the paragraph gap took the cursor under 50.
C11_Witness ==
  /\ PlacingLine
  /\ yOffset < BottomMargin
  /\ pages = 1

\* C12: when no message has the summary sender, the finished export has
\* exactly one page, and that page carries the header.
C12_NoSummaryOnePage ==
  (pdfpc = "done" /\ SummaryTexts(messages) = <<>>) => (pages = 1 /\ headerPage = 1)

\* C12 witness: the export of a non-empty message list without summary
\* messages has been offered for download.
C12_Witness ==
  /\ pdfpc = "done"
  /\ downloaded
  /\ messages # <<>>
  /\ \A n \in 1..Len(messages) : messages[n].sender # SummaryLabel

\* C13: when the font load fails the export stays failed, nothing is saved
\* or offered for download, no page exists, and the message list and the
\* connection state are as before.
C13_FontFailureNoArtifact ==
  [][/\ pdfpc' = "failed"
          => /\ ~saved' /\ ~downloaded' /\ pages' = 0
             /\ UNCHANGED <<messages, isConnected, loading, socketRef, sockets>>
     /\ pdfpc = "failed" => pdfpc' = "failed"
    ]_vars

\* C13 witness: the export of a list holding a summary message has failed
\* on the font.
C13_Witness ==
  /\ pdfpc = "failed"
  /\ SummaryTexts(messages) # <<>>
  /\ ~saved

\* C14: every sendMessage call is all-or-nothing: either it is rejected and
\* changes nothing, or it appends exactly one "User" message carrying the
\* topic, transmits exactly one frame on the current socket and sets loading.
C14_SendAllOrNothing ==
  [][lastOp'.name = "sendMessage"
       => \/ /\ lastOp'.outcome = "rejected"
             /\ UNCHANGED <<messages, sent, topic, loading>>
          \/ /\ lastOp'.outcome = "sent"
             /\ messages' = Append(messages, [sender |-> "User", text |-> topic])
             /\ Len(sent') = Len(sent) + 1
             /\ sent'[Len(sent')][1] = socketRef
             /\ loading'
    ]_vars

\* C15: every line is drawn at a cursor position at or above the bottom
\* margin threshold of 50.
C15_LinesAboveBottomMargin == PlacingLine => yOffset >= BottomMargin

RECURSIVE Concat(_)
Concat(ls) == IF ls = <<>> THEN <<>> ELSE Head(ls) \o Concat(Tail(ls))

CharsFit == \A n \in 1..Len(text) : widthOfTextAtSize(font, <<text[n]>>) <= maxWidth

\* C16: when every character of the paragraph measures at most maxWidth on
\* its own, every line committed by wrapText, and the candidate line,
\* measures at most maxWidth.
C16_LinesFit ==
  CharsFit =>
    /\ \A n \in 1..Len(lines) : widthOfTextAtSize(font, lines[n]) <= maxWidth
    /\ widthOfTextAtSize(font, currentLine) <= maxWidth

\* C16 witness: wrapText has returned several lines for a paragraph whose
\* characters each fit, one of them holding more than one character.
C16_Witness ==
  /\ wpc = "done"
  /\ CharsFit
  /\ Len(lines) >= 2
  /\ \E n \in 1..Len(lines) : Len(lines[n]) >= 2

\* C17: while the component is mounted, isConnected is true only if the
\* socket referenced by socketRef is OPEN.
C17_ConnectedImpliesOpen ==
  (phase = "mounted" /\ isConnected) => (socketRef # 0 /\ sockets[socketRef] = "OPEN")

\* C18: the close of a socket that socketRef no longer references leaves
\* isConnected and loading unchanged while the referenced socket is OPEN.
C18_StaleCloseIgnored ==
  [][(/\ lastOp'.name \in {"onclose", "onerror"}
      /\ lastOp'.sock # socketRef
      /\ socketRef # 0
      /\ sockets[socketRef] = "OPEN")
       => UNCHANGED <<isConnected, loading>>]_vars

\* C19: loading is true only if isConnected is true; loading is set only by
\* a sendMessage that passed its guard, and is cleared by every close event
\* and by every frame that parses.
C19_LoadingImpliesConnected ==
  [][/\ loading' => isConnected'
     /\ (~loading /\ loading')
          => lastOp'.name = "sendMessage" /\ lastOp'.outcome \in {"sent", "dropped"} /\ SendGuard
     /\ lastOp'.name \in {"onclose", "onerror"} => ~loading'
     /\ (lastOp'.name = "onmessage" /\ lastOp'.outcome = "appended") => ~loading'
    ]_vars

\* C19 witness: a response is awaited on an open connection.
C19_Witness ==
  /\ loading
  /\ isConnected
  /\ lastOp.name = "sendMessage"
  /\ lastOp.outcome = "sent"

\* C20: wrapText returns at least one line, exactly one empty line for an
\* empty paragraph, and the returned lines concatenated in order give the
\* paragraph back.
C20_WrapPreservesText ==
  wpc = "done" =>
    /\ Len(lines) >= 1
    /\ Concat(lines) = text
    /\ text = <<>> => lines = << <<>> >>

\* C20 witness: wrapText has returned at least two lines, the last of them
\* not empty.
C20_Witness ==
  /\ wpc = "done"
  /\ Len(text) >= 2
  /\ Len(lines) >= 2
  /\ lines[Len(lines)] # <<>>

\* The loop of wrapText returns what wrapText as a function gives.
WrapLoopAgrees == wpc = "done" => lines = wrapText(text, font)
====
